---- MODULE Spec2Model ----
(***************************************************************************)
(* Model of the card manager of bga-cards (src/src/card-manager.ts) and of *)
(* the part of the card stocks (src/bga-cards.d.ts) it talks to.           *)
(*                                                                         *)
(* The document is a heap of card elements; an element is "live" when it   *)
(* is attached to the document.  An element that is detached and that no   *)
(* pending callback keeps is garbage once the operation that made it has   *)
(* returned, and its slot of the heap is free again.  Optional JavaScript  *)
(* values (an absent argument, an absent settings field) are sequences of  *)
(* length 0 or 1, so that `a ?? b` is the operator Nullish.                *)
(***************************************************************************)
EXTENDS Integers, Sequences, FiniteSets, TLC

\* ------------------------------------------------------------------ bounds
MaxTimers == 1       \* setTimeout callbacks pending at the same time
MaxCardNumber == 12  \* the card number a Deck is followed up to

\* ------------------------------------------------------- program constants
DefaultUpdateFrontDelay == 500
DefaultUpdateBackDelay == 0

\* ------------------------------------------------------------ input domains
CardIds == {5, 7}
\* the card values callers pass; the `type` field is absent or truthy (1)
Cards == {[id |-> 5, type |-> <<>>], [id |-> 5, type |-> <<1>>],
          [id |-> 7, type |-> <<1>>]}
StockIds == {1, 2}
OptBool == {<<>>, <<TRUE>>, <<FALSE>>}
\* explicit delays a caller passes next to the defaults
FrontDelays == {<<0>>}
BackDelays == {<<>>, <<300>>}
\* one live element for each card id, one kept by each pending callback and
\* the one an operation is creating
Slots == 1..(Cardinality(CardIds) + MaxTimers + 1)

Null == 0            \* no element (null)
NoStock == 0         \* no stock (undefined)
NoContent == [id |-> 0, type |-> <<>>]    \* a face no hook has populated
\* a free slot of the heap
Free == [id |-> "", side |-> "", front |-> NoContent, attached |-> FALSE]

\* a LineStock as constructed: nothing selectable or selected, no card
\* number, no slots
LineStock ==
    [kind |-> "line", selectionMode |-> "none", selectedCards |-> <<>>,
     cardNumber |-> 0, autoUpdateCardNumber |-> FALSE, slots |-> <<>>]

\* the card number the Deck of the scenario is constructed with
DeckCardNumber == 10

\* a Deck as constructed from DeckSettings
Deck(cardNumber, autoUpdateCardNumber) ==
    [LineStock EXCEPT !.kind = "deck", !.cardNumber = cardNumber,
                      !.autoUpdateCardNumber = autoUpdateCardNumber]

\* the slots of a SlotStock for the ids given: one empty container for each
emptySlots(slotsIds) ==
    [i \in DOMAIN slotsIds |-> [id |-> slotsIds[i], cards |-> {}]]

\* a SlotStock as constructed from SlotStockSettings.slotsIds
SlotStock(slotsIds) ==
    [LineStock EXCEPT !.kind = "slot", !.slots = emptySlots(slotsIds)]

\* a ?? b
Nullish(opt, default) == IF opt = <<>> THEN default ELSE opt[1]

\* {}: a FlipCardSettings object with every field absent
EmptySettings ==
    [updateData |-> <<>>, updateFront |-> <<>>, updateBack |-> <<>>,
     updateFrontDelay |-> <<>>, updateBackDelay |-> <<>>]

\* the FlipCardSettings objects callers pass: each departs from {} in the
\* fields named
FlipCardSettings ==
    {[EmptySettings EXCEPT !.updateData = <<FALSE>>]}
    \cup {[EmptySettings EXCEPT !.updateFront = <<FALSE>>]}
    \cup {[EmptySettings EXCEPT !.updateFrontDelay = d] : d \in FrontDelays}
    \cup {[EmptySettings EXCEPT !.updateBack = <<TRUE>>, !.updateBackDelay = d,
                                !.updateData = <<FALSE>>] : d \in BackDelays}

\* the `settings?` argument: absent, or a FlipCardSettings object
OptSettings == {<<>>} \cup {<<s>> : s \in FlipCardSettings}

\* settings?.field
Field(settings, f) == IF settings = <<>> THEN <<>> ELSE settings[1][f]

VARIABLES
    elems,      \* the heap of elements: id, side, front face, attached
    stocks,     \* CardManager.stocks: the registered stocks, in order
    cards,      \* CardStock.cards of each stock
    timers,     \* the pending setTimeout callbacks, in scheduling order
    props,      \* each stock's kind, selection, card number and slots
    anims,      \* the animations of addCard whose promise is not settled
    animates,   \* whether the animation primitive plays (or declines)
    op,         \* the operation that ran last
    log,        \* what that operation called: hooks, stock notifications
    thrown      \* the error that operation raised, "none" if it returned

vars == <<elems, stocks, cards, timers, props, anims, animates, op, log, thrown>>

\* ------------------------------------------------------------- the manager

\* `card-${card.id}` for every id in use, computed once
DefaultIds == [i \in CardIds |-> "card-" \o ToString(i)]

\* getId with the default settings: `card-${card.id}`
getId(card) == DefaultIds[card.id]

\* `deleted${id}` for every id in use, computed once
DeletedIds == [i \in CardIds |-> "deleted" \o DefaultIds[i]]

deletedId(id) == DeletedIds[CHOOSE i \in CardIds : DefaultIds[i] = id]

\* document.getElementById: the attached element that carries the id
getElementById(m, id) ==
    LET found == {e \in DOMAIN m.elems : m.elems[e].attached /\ m.elems[e].id = id}
    IN IF found = {} THEN Null
       ELSE CHOOSE e \in found : \A f \in found : e <= f

getCardElement(m, card) == getElementById(m, getId(card))

\* CardStock.contains: by identity
contains(m, s, card) ==
    \E i \in DOMAIN m.cards[s] : getId(m.cards[s][i]) = getId(card)

\* getCardStock with the test of find negated: the first stock without the card
getCardStockNegated(m, card) ==
    LET hits == {i \in DOMAIN m.stocks : ~contains(m, m.stocks[i], card)}
    IN IF hits = {} THEN NoStock
       ELSE m.stocks[CHOOSE i \in hits : \A j \in hits : i <= j]

\* getCardStock that keeps the last stock that has the card, not the first
getCardStockLast(m, card) ==
    LET hits == {i \in DOMAIN m.stocks : contains(m, m.stocks[i], card)}
    IN IF hits = {} THEN NoStock
       ELSE m.stocks[CHOOSE i \in hits : \A j \in hits : i >= j]

\* this.stocks.find(stock => stock.contains(card))
getCardStock(m, card) ==
    LET hits == {i \in DOMAIN m.stocks : contains(m, m.stocks[i], card)}
    IN IF hits = {} THEN NoStock
       ELSE m.stocks[CHOOSE i \in hits : \A j \in hits : i <= j]

\* card.type ?? false, read as a condition
isCardVisible(card) == IF card.type = <<>> THEN FALSE ELSE card.type[1] # 0

\* a call the operation makes: to which hook or stock, with which card and
\* element, and the id of that element and whether it is in the document at
\* that moment
Event(ev, card, e, s, m) ==
    [ev |-> ev, card |-> card, elem |-> e, stock |-> s,
     id |-> IF e = Null THEN "" ELSE m.elems[e].id,
     attached |-> IF e = Null THEN FALSE ELSE m.elems[e].attached,
     held |-> IF s = NoStock THEN FALSE ELSE contains(m, s, card)]

\* the population hooks of the settings; the front hook shows the card on the
\* front face (what the other two draw is not followed, their calls are)
setupDiv(m, card, e) ==
    [m EXCEPT !.log = Append(@, Event("setupDiv", card, e, NoStock, m))]

setupFrontDiv(m, card, e) ==
    [m EXCEPT !.elems[e].front = card,
              !.log = Append(@, Event("setupFrontDiv", card, e, NoStock, m))]

setupBackDiv(m, card, e) ==
    [m EXCEPT !.log = Append(@, Event("setupBackDiv", card, e, NoStock, m))]

appendChild(m, e) == [m EXCEPT !.elems[e].attached = TRUE]

removeChild(m, e) == [m EXCEPT !.elems[e].attached = FALSE]

FreeSlots(m) == {e \in DOMAIN m.elems : m.elems[e] = Free}

\* document.createElement("div") and the assignments of lines 136-146
createElement(m, id, side) ==
    IF FreeSlots(m) = {} THEN [m EXCEPT !.full = TRUE]
    ELSE LET e == CHOOSE x \in FreeSlots(m) : \A y \in FreeSlots(m) : x <= y
         IN [m EXCEPT !.elems[e] = [id |-> id, side |-> side, front |-> NoContent,
                                    attached |-> FALSE],
                      !.ret = e]

\* createCardElement with the hooks called before the element is appended to
\* the body
createCardElementHooksFirst(m, card, visible) ==
    LET id == getId(card)
        side == IF Nullish(visible, TRUE) THEN "front" ELSE "back"
    IN IF getCardElement(m, card) # Null
       THEN [m EXCEPT !.thrown = "This card already exists"]
       ELSE LET m1 == createElement(m, id, side)
                element == m1.ret
                m2 == setupDiv(m1, card, element)
                m3 == setupFrontDiv(m2, card, element)
                m4 == setupBackDiv(m3, card, element)
                m5 == appendChild(m4, element)
                m6 == removeChild(m5, element)
            IN IF m1.full THEN m1
               ELSE [m6 EXCEPT !.log = Append(@, Event("return", card, element,
                                                        NoStock, m6))]

\* createCardElement without the test for an element that is already there
createCardElementUnchecked(m, card, visible) ==
    LET id == getId(card)
        side == IF Nullish(visible, TRUE) THEN "front" ELSE "back"
        m1 == createElement(m, id, side)
        element == m1.ret
        m2 == appendChild(m1, element)
        m3 == setupDiv(m2, card, element)
        m4 == setupFrontDiv(m3, card, element)
        m5 == setupBackDiv(m4, card, element)
        m6 == removeChild(m5, element)
    IN IF m1.full THEN m1
       ELSE [m6 EXCEPT !.log = Append(@, Event("return", card, element,
                                                NoStock, m6))]

\* createCardElement with the test for an element that is already there made
\* after the element is built and populated
createCardElementLateCheck(m, card, visible) ==
    LET id == getId(card)
        side == IF Nullish(visible, TRUE) THEN "front" ELSE "back"
        m1 == createElement(m, id, side)
        element == m1.ret
        m2 == appendChild(m1, element)
        m3 == setupDiv(m2, card, element)
        m4 == setupFrontDiv(m3, card, element)
        m5 == setupBackDiv(m4, card, element)
        m6 == removeChild(m5, element)
    IN IF m1.full THEN m1
       ELSE IF getCardElement(m, card) # Null
       THEN [m5 EXCEPT !.thrown = "This card already exists"]
       ELSE [m6 EXCEPT !.log = Append(@, Event("return", card, element,
                                                NoStock, m6))]

\* CardManager.createCardElement
createCardElement(m, card, visible) ==
    LET id == getId(card)
        side == IF Nullish(visible, TRUE) THEN "front" ELSE "back"
    IN IF getCardElement(m, card) # Null
       THEN [m EXCEPT !.thrown = "This card already exists"]
       ELSE LET m1 == createElement(m, id, side)
                element == m1.ret
                m2 == appendChild(m1, element)
                m3 == setupDiv(m2, card, element)
                m4 == setupFrontDiv(m3, card, element)
                m5 == setupBackDiv(m4, card, element)
                m6 == removeChild(m5, element)
            IN IF m1.full THEN m1
               ELSE [m6 EXCEPT !.log = Append(@, Event("return", card, element,
                                                        NoStock, m6))]

\* ---- CardStock (declared in bga-cards.d.ts; behaviour from the specification)

RemoveAt(seq, i) == SubSeq(seq, 1, i - 1) \o SubSeq(seq, i + 1, Len(seq))

\* cards.findIndex(c => getId(c) === getId(card)), 0 when there is none
findIndex(seq, card) ==
    LET hits == {i \in DOMAIN seq : getId(seq[i]) = getId(card)}
    IN IF hits = {} THEN 0 ELSE CHOOSE i \in hits : \A j \in hits : i <= j

\* the stock drops the card from its sequence and from its selection
dropCard(m, s, card) ==
    LET i == findIndex(m.cards[s], card)
        k == findIndex(m.props[s].selectedCards, card)
        m1 == IF k = 0 THEN m
              ELSE [m EXCEPT !.props[s].selectedCards = RemoveAt(@, k)]
        m2 == [m1 EXCEPT !.props[s].slots =
                            [j \in DOMAIN @ |->
                                [@[j] EXCEPT !.cards = @ \ {getId(card)}]]]
    IN IF i = 0 THEN m2 ELSE [m2 EXCEPT !.cards[s] = RemoveAt(@, i)]

\* Deck.setCardNumber
setCardNumber(m, s, cardNumber) == [m EXCEPT !.props[s].cardNumber = cardNumber]

\* CardStock.cardRemoved: the manager tells the stock the card is gone; the
\* override of Deck also takes one off the card number
cardRemoved(m, s, card) ==
    LET m1 == [m EXCEPT !.log = Append(@, Event("cardRemoved", card,
                                                getCardElement(m, card), s, m))]
        m2 == dropCard(m1, s, card)
    IN IF m.props[s].kind = "deck" /\ m.props[s].autoUpdateCardNumber
       THEN setCardNumber(m2, s, m2.props[s].cardNumber - 1)
       ELSE m2

\* CardStock.unselectCard: the card leaves the selection
unselectCard(m, s, card) ==
    LET k == findIndex(m.props[s].selectedCards, card)
    IN IF k = 0 THEN m
       ELSE [m EXCEPT !.props[s].selectedCards = RemoveAt(@, k),
                      !.log = Append(@, Event("unselectCard", card,
                                              getCardElement(m, card), s, m))]

RECURSIVE unselectAll(_, _)
\* CardStock.unselectAll: unselectCard for every selected card
unselectAll(m, s) ==
    IF m.props[s].selectedCards = <<>> THEN m
    ELSE unselectAll(unselectCard(m, s, m.props[s].selectedCards[1]), s)

\* setSelectionMode that keeps the selection when the mode becomes 'none'
setSelectionModeKeepsSelection(m, s, selectionMode) ==
    [m EXCEPT !.props[s].selectionMode = selectionMode]

\* CardStock.setSelectionMode: 'none' unselects all selected cards
setSelectionMode(m, s, selectionMode) ==
    LET m1 == IF selectionMode = "none" THEN unselectAll(m, s) ELSE m
    IN [m1 EXCEPT !.props[s].selectionMode = selectionMode]

\* selectCard that adds to the selection in every mode
selectCardAlwaysAdds(m, s, card) ==
    IF m.props[s].selectionMode = "none" \/ ~contains(m, s, card) THEN m
    ELSE IF findIndex(m.props[s].selectedCards, card) # 0 THEN m
    ELSE [m EXCEPT !.props[s].selectedCards = Append(@, card),
                   !.log = Append(@, Event("selectCard", card,
                                           getCardElement(m, card), s, m))]

\* CardStock.selectCard: nothing is selectable in mode 'none'; in mode
\* 'single' the cards selected before are unselected
selectCard(m, s, card) ==
    IF m.props[s].selectionMode = "none" \/ ~contains(m, s, card) THEN m
    ELSE LET others == {i \in DOMAIN m.props[s].selectedCards :
                           getId(m.props[s].selectedCards[i]) # getId(card)}
             m1 == IF m.props[s].selectionMode = "single" /\ others # {}
                   THEN unselectAll(m, s) ELSE m
         IN IF findIndex(m1.props[s].selectedCards, card) # 0 THEN m1
            ELSE [m1 EXCEPT !.props[s].selectedCards = Append(@, card),
                            !.log = Append(@, Event("selectCard", card,
                                                    getCardElement(m1, card), s, m1))]

\* CardStock.cardClick: a click on the element of a card of the stock toggles
\* its selection unless the mode is 'none', and always notifies onCardClick
cardClick(m, s, card) ==
    LET m1 == IF m.props[s].selectionMode = "none" THEN m
              ELSE IF findIndex(m.props[s].selectedCards, card) # 0
                   THEN unselectCard(m, s, card)
                   ELSE selectCard(m, s, card)
    IN [m1 EXCEPT !.log = Append(@, Event("onCardClick", card,
                                          getCardElement(m1, card), s, m1))]

\* CardStock.moveFromOtherStock: the origin stock drops the card at once
moveFromOtherStock(m, card, cardElement, fromStock) ==
    LET m1 == [m EXCEPT !.log = Append(@, Event("moveFromOtherStock", card,
                                                cardElement, fromStock, m))]
    IN dropCard(m1, fromStock, card)

\* the animation primitive is started for a card that moves to stock s: if
\* it plays, the promise of addCard stays unsettled until it ends
animate(m, s, card, element) ==
    IF m.animates
    THEN [m EXCEPT !.log = Append(@, Event("animation", card, element, s, m)),
                   !.anims = @ \cup {[stock |-> s, card |-> card]}]
    ELSE m

\* addCard with the animation started before the sequence is updated
addCardAnimatesFirst(m, s, card, visible) ==
    IF contains(m, s, card) THEN m
    ELSE LET element == getCardElement(m, card)
         IN IF element # Null
            THEN LET origin == getCardStock(m, card)
                     m1 == IF origin = NoStock THEN m
                           ELSE moveFromOtherStock(m, card, element, origin)
                     m2 == animate(m1, s, card, element)
                 IN [m2 EXCEPT !.cards[s] = Append(@, card)]
            ELSE LET m1 == createCardElement(m, card, visible)
                     m2 == [m1 EXCEPT !.cards[s] = Append(@, card)]
                 IN IF m1.full THEN m1
                    ELSE appendChild(m2, m1.ret)

\* CardStock.addCard: a live element moves here and leaves its origin stock,
\* otherwise an element is created and placed; the sequence is updated at
\* once, before the animation of the move starts
addCard(m, s, card, visible) ==
    IF contains(m, s, card) THEN m
    ELSE LET element == getCardElement(m, card)
         IN IF element # Null
            THEN LET origin == getCardStock(m, card)
                     m1 == IF origin = NoStock THEN m
                           ELSE moveFromOtherStock(m, card, element, origin)
                     m2 == [m1 EXCEPT !.cards[s] = Append(@, card)]
                 IN animate(m2, s, card, element)
            ELSE LET m1 == createCardElement(m, card, visible)
                     m2 == [m1 EXCEPT !.cards[s] = Append(@, card)]
                 IN IF m1.full THEN m1
                    ELSE appendChild(m2, m1.ret)

\* Deck.addCard: one more on the card number, then CardStock.addCard
deckAddCard(m, s, card, visible) ==
    LET m1 == [m EXCEPT !.log = Append(@, Event("Deck.addCard", card,
                                                getCardElement(m, card), s, m))]
        m2 == IF m.props[s].autoUpdateCardNumber
              THEN setCardNumber(m1, s, m1.props[s].cardNumber + 1)
              ELSE m1
    IN addCard(m2, s, card, visible)

\* SlotStock.addCard: the slot is settings.slot (no mapCardToSlot is set);
\* without a slot of that id the call fails; the element of the card lands
\* in the container of the slot
slotAddCard(m, s, card, visible, slot) ==
    LET hits == {k \in DOMAIN m.props[s].slots :
                    slot # <<>> /\ m.props[s].slots[k].id = slot[1]}
    IN IF hits = {} THEN [m EXCEPT !.thrown = "Error: no slot for the card"]
       ELSE LET m1 == addCard(m, s, card, visible)
            IN IF m1.full THEN m1
               ELSE [m1 EXCEPT !.props[s].slots =
                        [k \in DOMAIN @ |->
                            [@[k] EXCEPT !.cards =
                                IF k \in hits THEN @ \cup {getId(card)}
                                ELSE @ \ {getId(card)}]]]

\* stock.addCard(card, undefined, {visible}) on the class of the stock
stockAddCard(m, s, card, visible) ==
    IF m.props[s].kind = "deck" THEN deckAddCard(m, s, card, visible)
    ELSE IF m.props[s].kind = "slot" THEN slotAddCard(m, s, card, visible, <<>>)
    ELSE addCard(m, s, card, visible)

\* ------------------------------------------------- the manager, continued

\* removeCard that does not tell the stock
removeCardUnnotified(m, card) ==
    LET id == getId(card)
        div == getElementById(m, id)
    IN IF div = Null THEN m
       ELSE removeChild([m EXCEPT !.elems[div].id = deletedId(id)], div)

\* removeCard with the element renamed and detached before the stock is told
removeCardDetachFirst(m, card) ==
    LET id == getId(card)
        div == getElementById(m, id)
    IN IF div = Null THEN m
       ELSE LET stock == getCardStock(m, card)
                m1 == [m EXCEPT !.elems[div].id = deletedId(id)]
                m2 == removeChild(m1, div)
            IN IF stock = NoStock THEN m2 ELSE cardRemoved(m2, stock, card)

\* removeCard without the renaming and the detaching of the element
removeCardKeepsElement(m, card) ==
    LET id == getId(card)
        div == getElementById(m, id)
    IN IF div = Null THEN m
       ELSE LET stock == getCardStock(m, card)
            IN IF stock = NoStock THEN m ELSE cardRemoved(m, stock, card)

\* CardManager.removeCard
removeCard(m, card) ==
    LET id == getId(card)
        div == getElementById(m, id)
    IN IF div = Null THEN m
       ELSE LET stock == getCardStock(m, card)
                m1 == IF stock = NoStock THEN m ELSE cardRemoved(m, stock, card)
                m2 == [m1 EXCEPT !.elems[div].id = deletedId(id)]
            IN removeChild(m2, div)

\* CardStock.removeCard: the manager removes the element, which tells the
\* stock; the stock drops the card
stockRemoveCard(m, s, card) ==
    IF ~contains(m, s, card) THEN m
    ELSE dropCard(removeCard(m, card), s, card)

RECURSIVE removeAll(_, _)
\* CardStock.removeAll: removeCard for every card of the stock
removeAll(m, s) ==
    IF m.cards[s] = <<>> THEN m
    ELSE removeAll(stockRemoveCard(m, s, m.cards[s][1]), s)

\* setSlotsIds that rebuilds the slots around the cards the stock holds
setSlotsIdsKeepsCards(m, s, slotsIds) ==
    [m EXCEPT !.props[s].slots = emptySlots(slotsIds)]

\* SlotStock.setSlotsIds: the stock is emptied, then the slots are rebuilt
setSlotsIds(m, s, slotsIds) ==
    LET m1 == removeAll(m, s)
    IN [m1 EXCEPT !.props[s].slots = emptySlots(slotsIds)]

\* setTimeout(callback, delay): the callback keeps the card and the element
setTimeout(m, hook, card, e, delay) ==
    [m EXCEPT !.timers = Append(@, [hook |-> hook, card |-> card, elem |-> e,
                                    delay |-> delay, elapsed |-> 0])]

\* updateFront without the delay: the front hook is always called at once
updateFrontAtOnce(m, card, element, isVisible, settings) ==
    IF Nullish(Field(settings, "updateFront"), TRUE)
    THEN setupFrontDiv(m, card, element)
    ELSE m

\* lines 215-223 of setCardVisible
updateFront(m, card, element, isVisible, settings) ==
    IF Nullish(Field(settings, "updateFront"), TRUE)
    THEN LET updateFrontDelay ==
                 Nullish(Field(settings, "updateFrontDelay"), DefaultUpdateFrontDelay)
         IN IF ~isVisible /\ updateFrontDelay > 0
            THEN setTimeout(m, "setupFrontDiv", card, element, updateFrontDelay)
            ELSE setupFrontDiv(m, card, element)
    ELSE m

\* lines 224-231 of setCardVisible
updateBack(m, card, element, isVisible, settings) ==
    IF Nullish(Field(settings, "updateBack"), FALSE)
    THEN LET updateBackDelay ==
                 Nullish(Field(settings, "updateBackDelay"), DefaultUpdateBackDelay)
         IN IF isVisible /\ updateBackDelay > 0
            THEN setTimeout(m, "setupBackDiv", card, element, updateBackDelay)
            ELSE setupBackDiv(m, card, element)
    ELSE m

\* updateData with the new value pushed instead of spliced in
updateDataPushes(m, card, settings) ==
    IF Nullish(Field(settings, "updateData"), TRUE)
    THEN LET stock == getCardStock(m, card)
         IN IF stock = NoStock THEN [m EXCEPT !.thrown = "TypeError: stock is undefined"]
            ELSE [m EXCEPT !.cards[stock] = Append(@, card)]
    ELSE m

\* lines 233-241 of setCardVisible: stock.getCards() on no stock is a TypeError
updateData(m, card, settings) ==
    IF Nullish(Field(settings, "updateData"), TRUE)
    THEN LET stock == getCardStock(m, card)
         IN IF stock = NoStock THEN [m EXCEPT !.thrown = "TypeError: stock is undefined"]
            ELSE LET cardIndex == findIndex(m.cards[stock], card)
                 IN IF cardIndex # 0
                    THEN [m EXCEPT !.cards[stock][cardIndex] = card]
                    ELSE m
    ELSE m

\* CardManager.setCardVisible
setCardVisible(m, card, visible, settings) ==
    LET element == getCardElement(m, card)
    IN IF element = Null THEN m
       ELSE LET isVisible == Nullish(visible, isCardVisible(card))
                m1 == [m EXCEPT !.elems[element].side =
                                    IF isVisible THEN "front" ELSE "back"]
                m2 == updateFront(m1, card, element, isVisible, settings)
                m3 == updateBack(m2, card, element, isVisible, settings)
            IN updateData(m3, card, settings)

\* flipCard that shows the side isCardVisible gives, not the other side
flipCardByVisibility(m, card, settings) ==
    LET element == getCardElement(m, card)
    IN IF element = Null THEN [m EXCEPT !.thrown = "TypeError: element is null"]
       ELSE setCardVisible(m, card, <<>>, settings)

\* CardManager.flipCard: element.dataset on no element is a TypeError
flipCard(m, card, settings) ==
    LET element == getCardElement(m, card)
    IN IF element = Null THEN [m EXCEPT !.thrown = "TypeError: element is null"]
       ELSE LET currentlyVisible == m.elems[element].side = "front"
            IN setCardVisible(m, card, <<~currentlyVisible>>, settings)

\* updateCardInformations that passes the settings on as they are
updateCardInformationsAsAsked(m, card, settings) ==
    setCardVisible(m, card, <<>>, settings)

\* CardManager.updateCardInformations
updateCardInformations(m, card, settings) ==
    LET newSettings == <<[Nullish(settings, EmptySettings)
                             EXCEPT !.updateData = <<TRUE>>]>>
    IN setCardVisible(m, card, <<>>, newSettings)

\* a callback that looks the element up by the id of the card when it runs
runTimerById(m, i) ==
    LET t == m.timers[i]
        m1 == [m EXCEPT !.timers = RemoveAt(@, i)]
        e == getCardElement(m, t.card)
    IN IF e = Null THEN m1
       ELSE IF t.hook = "setupFrontDiv" THEN setupFrontDiv(m1, t.card, e)
       ELSE setupBackDiv(m1, t.card, e)

\* a pending callback runs: the hook gets the kept card and the kept element
runTimer(m, i) ==
    LET t == m.timers[i]
        m1 == [m EXCEPT !.timers = RemoveAt(@, i)]
    IN IF t.hook = "setupFrontDiv" THEN setupFrontDiv(m1, t.card, t.elem)
       ELSE setupBackDiv(m1, t.card, t.elem)

\* ------------------------------------------------------------ the actions

Cur == [elems |-> elems, stocks |-> stocks, cards |-> cards, timers |-> timers,
        props |-> props, anims |-> anims, animates |-> animates,
        log |-> <<>>, thrown |-> "none", ret |-> Null, full |-> FALSE]

\* garbage collection: a detached element that no callback keeps
Garbage(r, e) ==
    /\ ~r.elems[e].attached
    /\ \A i \in DOMAIN r.timers : r.timers[i].elem # e

\* the slots in use once the garbage is gone, moved to the front of the heap
Kept(r) == {e \in DOMAIN r.elems : r.elems[e] # Free /\ ~Garbage(r, e)}

Moved(r, e) == Cardinality({k \in Kept(r) : k <= e})

HasGarbage(r) == \E e \in DOMAIN r.elems : r.elems[e] # Free /\ Garbage(r, e)

Collect(r) ==
    IF ~HasGarbage(r) THEN r.elems
    ELSE [e \in DOMAIN r.elems |->
             IF e <= Cardinality(Kept(r))
             THEN r.elems[CHOOSE k \in Kept(r) : Moved(r, k) = e]
             ELSE Free]

CollectTimers(r) ==
    IF ~HasGarbage(r) THEN r.timers
    ELSE [i \in DOMAIN r.timers |-> [r.timers[i] EXCEPT !.elem = Moved(r, @)]]

Commit(r, name) ==
    /\ ~r.full
    /\ Len(r.timers) <= MaxTimers
    /\ elems' = Collect(r)
    /\ stocks' = r.stocks
    /\ cards' = r.cards
    /\ timers' = CollectTimers(r)
    /\ props' = r.props
    /\ anims' = r.anims
    /\ animates' = r.animates
    /\ log' = r.log
    /\ thrown' = r.thrown
    /\ op' = name

Init ==
    /\ elems = [e \in Slots |-> Free]
    /\ stocks = <<>>
    /\ cards = [s \in StockIds |-> <<>>]
    /\ timers = <<>>
    /\ props = [s \in StockIds |-> LineStock]
    /\ anims = {}
    /\ animates = FALSE
    /\ op = "init"
    /\ log = <<>>
    /\ thrown = "none"

\* CardManager.addStock, called once by the constructor of each stock
AddStock(s) ==
    /\ \A i \in DOMAIN stocks : stocks[i] # s
    /\ \A t \in StockIds : t < s => \E i \in DOMAIN stocks : stocks[i] = t
    /\ Commit([Cur EXCEPT !.stocks = Append(@, s)], "addStock")

CreateCardElement(card, visible) ==
    /\ card \in Cards
    /\ Commit(createCardElement(Cur, card, visible), "createCardElement")

\* a caller creates an element and places it in the page itself: a
\* free-floating element, in no stock
placeCardElement(m, card, visible) ==
    LET m1 == createCardElement(m, card, visible)
    IN IF m1.full \/ m1.thrown # "none" THEN m1 ELSE appendChild(m1, m1.ret)

PlaceCardElement(card, visible) ==
    /\ card \in Cards
    /\ Commit(placeCardElement(Cur, card, visible), "placeCardElement")

RemoveCard(card) ==
    /\ card \in Cards
    /\ Commit(removeCard(Cur, card), "removeCard")

SetCardVisible(card, visible, settings) ==
    /\ card \in Cards
    /\ Commit(setCardVisible(Cur, card, visible, settings), "setCardVisible")

FlipCard(card, settings) ==
    /\ card \in Cards
    /\ Commit(flipCard(Cur, card, settings), "flipCard")

UpdateCardInformations(card, settings) ==
    /\ card \in Cards
    /\ Commit(updateCardInformations(Cur, card, settings), "updateCardInformations")

StockAddCard(s, card, visible) ==
    /\ \E i \in DOMAIN stocks : stocks[i] = s
    /\ Commit(stockAddCard(Cur, s, card, visible), "addCard")

Due(t) == t.elapsed >= t.delay

\* the event loop runs the first callback that is due
FireTimer ==
    \E i \in DOMAIN timers :
        /\ Due(timers[i])
        /\ \A j \in 1..(i - 1) : ~Due(timers[j])
        /\ Commit(runTimer(Cur, i), "timer")

\* time passes, up to the moment the next callback is due
AdvanceTime ==
    /\ timers # <<>>
    /\ \A i \in DOMAIN timers : ~Due(timers[i])
    /\ \E d \in {timers[i].delay - timers[i].elapsed : i \in DOMAIN timers} :
        /\ \A i \in DOMAIN timers : timers[i].elapsed + d <= timers[i].delay
        /\ Commit([Cur EXCEPT !.timers =
                      [i \in DOMAIN timers |->
                          [timers[i] EXCEPT !.elapsed = @ + d]]],
                  "advanceTime")

SelectionModes == {"none", "single", "multiple"}

SetSelectionMode(s, selectionMode) ==
    /\ selectionMode \in SelectionModes
    /\ Commit(setSelectionMode(Cur, s, selectionMode), "setSelectionMode")

SelectCard(s, card) ==
    /\ card \in Cards
    /\ Commit(selectCard(Cur, s, card), "selectCard")

UnselectCard(s, card) ==
    /\ card \in Cards
    /\ Commit(unselectCard(Cur, s, card), "unselectCard")

\* the user clicks the element of a card that is in the stock
CardClick(s, card) ==
    /\ contains(Cur, s, card)
    /\ Commit(cardClick(Cur, s, card), "cardClick")

\* addCard(card, undefined, {slot}) on a SlotStock; callers keep to one card
\* for each slot
SlotAddCard(s, card, slot) ==
    /\ props[s].kind = "slot"
    /\ \A k \in DOMAIN props[s].slots :
          (slot # <<>> /\ props[s].slots[k].id = slot[1])
             => props[s].slots[k].cards \subseteq {getId(card)}
    /\ Commit(slotAddCard(Cur, s, card, <<>>, slot), "addCard")

SetSlotsIds(s, slotsIds) ==
    /\ props[s].kind = "slot"
    /\ Commit(setSlotsIds(Cur, s, slotsIds), "setSlotsIds")

\* the animation primitive ends an animation: the promise of addCard settles
SettleAnimation ==
    \E a \in anims :
        Commit([Cur EXCEPT !.anims = @ \ {a}], "animationEnd")

\* the card values of one identity, the one the flip operations are tried on
FlipCards == {c \in Cards : c.id = 5}

\* creating, placing, moving and removing cards
Next ==
    \/ \E s \in StockIds : AddStock(s)
    \/ \E card \in Cards, visible \in OptBool : CreateCardElement(card, visible)
    \/ \E card \in Cards, visible \in OptBool : PlaceCardElement(card, visible)
    \/ \E card \in Cards : RemoveCard(card)
    \/ \E s \in StockIds, card \in Cards, visible \in OptBool :
           StockAddCard(s, card, visible)

Spec == Init /\ [][Next]_vars

\* the manager and its two stocks are constructed
FlipInit ==
    /\ elems = [e \in Slots |-> Free]
    /\ stocks = <<1, 2>>
    /\ cards = [s \in StockIds |-> <<>>]
    /\ timers = <<>>
    /\ props = [s \in StockIds |-> LineStock]
    /\ anims = {}
    /\ animates = FALSE
    /\ op = "init"
    /\ log = <<>>
    /\ thrown = "none"

\* flipping cards that are placed, moved and removed meanwhile, and the timers
FlipNext ==
    \/ \E card \in FlipCards : PlaceCardElement(card, <<>>)
    \/ \E card \in Cards : RemoveCard(card)
    \/ \E card \in FlipCards, visible \in OptBool, settings \in OptSettings :
           SetCardVisible(card, visible, settings)
    \/ \E card \in FlipCards, settings \in OptSettings : FlipCard(card, settings)
    \/ \E card \in FlipCards, settings \in OptSettings :
           UpdateCardInformations(card, settings)
    \/ \E s \in StockIds, card \in Cards : StockAddCard(s, card, <<>>)
    \/ FireTimer
    \/ AdvanceTime

FlipSpec == FlipInit /\ [][FlipNext]_vars

\* the manager and two stocks, with an animation primitive that plays
AnimInit ==
    /\ elems = [e \in Slots |-> Free]
    /\ stocks = <<1, 2>>
    /\ cards = [s \in StockIds |-> <<>>]
    /\ timers = <<>>
    /\ props = [s \in StockIds |-> LineStock]
    /\ anims = {}
    /\ animates = TRUE
    /\ op = "init"
    /\ log = <<>>
    /\ thrown = "none"

\* cards placed, moved between the stocks and removed while animations play
AnimNext ==
    \/ \E card \in Cards : PlaceCardElement(card, <<>>)
    \/ \E card \in Cards : RemoveCard(card)
    \/ \E s \in StockIds, card \in Cards : StockAddCard(s, card, <<>>)
    \/ SettleAnimation

AnimSpec == AnimInit /\ [][AnimNext]_vars

\* the cards the stocks of SelectSpec are given: one value of each identity
SelectCards == {c \in Cards : c.type # <<>>}

\* the manager with two stocks whose cards are added, selected, clicked and
\* removed, and whose selection mode changes
SelectNext ==
    \/ \E s \in StockIds, card \in SelectCards : StockAddCard(s, card, <<>>)
    \/ \E card \in SelectCards : RemoveCard(card)
    \/ \E s \in StockIds, mode \in SelectionModes : SetSelectionMode(s, mode)
    \/ \E s \in StockIds, card \in SelectCards : SelectCard(s, card)
    \/ \E s \in StockIds, card \in SelectCards : UnselectCard(s, card)
    \/ \E s \in StockIds, card \in SelectCards : CardClick(s, card)

SelectSpec == FlipInit /\ [][SelectNext]_vars

\* the manager with a Deck of 10 cards that updates its card number, and a
\* LineStock
DeckInit ==
    /\ elems = [e \in Slots |-> Free]
    /\ stocks = <<1, 2>>
    /\ cards = [s \in StockIds |-> <<>>]
    /\ timers = <<>>
    /\ props = [s \in StockIds |->
                   IF s = 1 THEN Deck(DeckCardNumber, TRUE) ELSE LineStock]
    /\ anims = {}
    /\ animates = FALSE
    /\ op = "init"
    /\ log = <<>>
    /\ thrown = "none"

\* cards added to the deck and to the other stock, and removed
DeckNext ==
    \/ \E s \in StockIds, card \in Cards :
           /\ props[s].cardNumber < MaxCardNumber
           /\ StockAddCard(s, card, <<>>)
    \/ \E card \in Cards : RemoveCard(card)

DeckSpec == DeckInit /\ [][DeckNext]_vars

\* the slot ids of the scenario: the stock is built with the first ones
SlotsIds == {<<1, 2, 3>>, <<4, 5>>}

\* the `slot` of AddCardToSlotSettings: absent, or a slot id
OptSlots ==
    {<<>>} \cup UNION {{<<ids[i]>> : i \in DOMAIN ids} : ids \in SlotsIds}

\* the manager with a SlotStock of the slots 1, 2 and 3, and a LineStock
SlotInit ==
    /\ elems = [e \in Slots |-> Free]
    /\ stocks = <<1, 2>>
    /\ cards = [s \in StockIds |-> <<>>]
    /\ timers = <<>>
    /\ props = [s \in StockIds |->
                   IF s = 1 THEN SlotStock(<<1, 2, 3>>) ELSE LineStock]
    /\ anims = {}
    /\ animates = FALSE
    /\ op = "init"
    /\ log = <<>>
    /\ thrown = "none"

\* cards added to slots, moved to the other stock and removed, and the slot
\* ids replaced
SlotNext ==
    \/ \E card \in SelectCards, slot \in OptSlots : SlotAddCard(1, card, slot)
    \/ \E card \in SelectCards : StockAddCard(2, card, <<>>)
    \/ \E card \in SelectCards : RemoveCard(card)
    \/ \E slotsIds \in SlotsIds : SetSlotsIds(1, slotsIds)

SlotSpec == SlotInit /\ [][SlotNext]_vars

\* ------------------------------------------------------------ the claims

\* the program after the step, as Cur is the program before it
Post == [elems |-> elems', stocks |-> stocks', cards |-> cards', timers |-> timers',
         props |-> props', anims |-> anims', animates |-> animates',
         log |-> <<>>, thrown |-> "none", ret |-> Null, full |-> FALSE]

DuplicateError == "This card already exists"

\* the operation that ran last made elements: createCardElement itself, or a
\* caller of it
Creating == op \in {"createCardElement", "placeCardElement", "addCard"}

\* a createCardElement for this identity has returned an element and no
\* removeCard has removed it since: it is in the document, or it is the
\* element the call before this one returned
CreatedNotRemoved(card) ==
    \/ getCardElement(Cur, card) # Null
    \/ /\ op = "createCardElement"
       /\ thrown = "none"
       /\ log # <<>>
       /\ log[1].card.id = card.id

\* C1, as stated: createCardElement({id: 5}) returns an element whose id is
\* 'card-5', and every later createCardElement for the same id, at any point
\* before removeCard removes the card, fails with the duplicate-card error.
C1_AsStated ==
    [][\A card \in Cards, visible \in OptBool :
          (/\ op' = "createCardElement"
           /\ CreatedNotRemoved(card)
           /\ CreateCardElement(card, visible))
              => thrown' = DuplicateError]_vars

\* C1, amended: createCardElement({id: 5}) returns an element whose id is
\* 'card-5' (`card-${id}` in general), and a createCardElement for the same
\* id fails with the duplicate-card error exactly when an element with that
\* id is attached to the document at the time of the call.
C1_DuplicateIffAttached ==
    [][\A card \in Cards, visible \in OptBool :
          (op' = "createCardElement" /\ CreateCardElement(card, visible)) =>
              IF getCardElement(Cur, card) # Null
              THEN thrown' = DuplicateError
              ELSE /\ thrown' = "none"
                   /\ log'[Len(log')].ev = "return"
                   /\ log'[Len(log')].id = getId(card)
                   /\ (card.id = 5 => log'[Len(log')].id = "card-5")]_vars

C1_Witness ==
    /\ op = "createCardElement"
    /\ thrown = DuplicateError
    /\ \E e \in DOMAIN elems : elems[e].attached /\ elems[e].id = "card-5"

\* C2: when an element with the card's id is in the document,
\* createCardElement raises the duplicate error and changes nothing: no
\* element is made, no hook is called, the element that is there keeps its
\* side and content, and no stock sequence changes.
C2_DuplicateChangesNothing ==
    [][\A card \in Cards, visible \in OptBool :
          (/\ op' = "createCardElement"
           /\ getCardElement(Cur, card) # Null
           /\ CreateCardElement(card, visible))
              => /\ thrown' = DuplicateError
                 /\ log' = <<>>
                 /\ elems' = elems
                 /\ cards' = cards
                 /\ stocks' = stocks
                 /\ timers' = timers]_vars

C2_Witness ==
    /\ op = "createCardElement"
    /\ thrown = DuplicateError
    /\ log = <<>>
    /\ \E s \in StockIds : Len(cards[s]) = 2

\* C3, as stated: during a createCardElement that succeeds every hook is
\* called while the new element is out of the document, and the element is
\* out of the document when it is returned.
C3_AsStated ==
    (op = "createCardElement" /\ thrown = "none")
        => \A i \in DOMAIN log : ~log[i].attached

\* C3, amended: during a createCardElement that succeeds setupDiv,
\* setupFrontDiv and setupBackDiv are called once each, in this order, while
\* the new element is temporarily attached to the document; the element is
\* detached when it is returned, and getCardElement(card) is empty right
\* after the call.
C3_HooksWhileAttached ==
    (Creating /\ thrown = "none" /\ log # <<>> /\ log[1].ev = "setupDiv")
        => /\ Len(log) = 4
           /\ log[2].ev = "setupFrontDiv"
           /\ log[3].ev = "setupBackDiv"
           /\ log[4].ev = "return"
           /\ \A i \in 1..3 : log[i].attached /\ log[i].elem = log[4].elem
           /\ \A i \in 1..4 : log[i].id = getId(log[i].card)
           /\ ~log[4].attached
           /\ op = "createCardElement" => getCardElement(Cur, log[4].card) = Null

C3_Witness ==
    /\ op = "createCardElement"
    /\ thrown = "none"
    /\ Len(log) = 4
    /\ log[2].attached
    /\ ~log[4].attached

\* C4: removeCard for a card with a live element that a registered stock
\* contains calls cardRemoved(card) of that stock exactly once, and before the
\* element is renamed and detached: at the call getCardElement(card) still
\* finds the element, under its id, in the document.
C4_NotifiedBeforeDetach ==
    [][\A card \in Cards :
          (/\ op' = "removeCard"
           /\ getCardElement(Cur, card) # Null
           /\ getCardStock(Cur, card) # NoStock
           /\ RemoveCard(card))
              => /\ Len(log') = 1
                 /\ log'[1].ev = "cardRemoved"
                 /\ log'[1].card = card
                 /\ log'[1].stock = getCardStock(Cur, card)
                 /\ log'[1].elem = getCardElement(Cur, card)
                 /\ log'[1].id = getId(card)
                 /\ log'[1].attached]_vars

C4_Witness ==
    /\ op = "removeCard"
    /\ Len(log) = 1
    /\ log[1].ev = "cardRemoved"
    /\ log[1].attached

\* C5: after removeCard(card) for a card with a live element the identity is
\* free: getCardElement finds no element, getCardStock finds no stock, and a
\* createCardElement for a card of the same id succeeds at once.
C5_IdentityFreed ==
    [][\A card \in Cards :
          (/\ op' = "removeCard"
           /\ getCardElement(Cur, card) # Null
           /\ RemoveCard(card))
              => \A c \in Cards :
                    c.id = card.id =>
                        /\ getCardElement(Post, c) = Null
                        /\ getCardStock(Post, c) = NoStock
                        /\ createCardElement(Post, c, <<>>).thrown = "none"]_vars

C5_Witness ==
    /\ op = "removeCard"
    /\ log # <<>>
    /\ getCardElement(Cur, log[1].card) = Null
    /\ getCardStock(Cur, log[1].card) = NoStock
    /\ \E s \in StockIds : cards[s] # <<>>

\* the registered stocks that contain the card
Holders(m, card) == {s \in StockIds : (\E i \in DOMAIN m.stocks : m.stocks[i] = s)
                                       /\ contains(m, s, card)}

\* C10: each card identity is in at most one registered stock at any time,
\* and B.addCard(card) for a card stock A holds takes it out of A in the same
\* step: afterwards A does not contain it, B does, and getCardStock(card) is B.
C10_OneStockPerCard ==
    [][/\ \A card \in Cards : Cardinality(Holders(Post, card)) <= 1
       /\ \A s \in StockIds, card \in Cards, visible \in OptBool :
             (op' = "addCard" /\ StockAddCard(s, card, visible))
                 => /\ Holders(Post, card) = {s}
                    /\ getCardStock(Post, card) = s]_vars

C10_Witness ==
    /\ op = "addCard"
    /\ Len(log) = 1
    /\ log[1].ev = "moveFromOtherStock"
    /\ ~contains(Cur, log[1].stock, log[1].card)
    /\ \E s \in StockIds : s # log[1].stock /\ contains(Cur, s, log[1].card)

FrontTimer(card, e) ==
    [hook |-> "setupFrontDiv", card |-> card, elem |-> e,
     delay |-> 500, elapsed |-> 0]

\* C6: setCardVisible(card, false) with default options sets the side to
\* 'back', calls no hook and leaves the front content as it is, and schedules
\* the front hook once, 500 time units later; no back hook is called or
\* scheduled.  setCardVisible(card, true) with default options calls the front
\* hook before it returns and schedules nothing.  A scheduled callback runs
\* once, when exactly its delay has passed.
C6_DefaultFlipTiming ==
    /\ [](\A card \in Cards :
             LET e == getCardElement(Cur, card)
                 hide == setCardVisible(Cur, card, <<FALSE>>, <<>>)
                 show == setCardVisible(Cur, card, <<TRUE>>, <<>>)
             IN e # Null
                   => /\ hide.elems[e].side = "back"
                      /\ hide.elems[e].front = elems[e].front
                      /\ hide.log = <<>>
                      /\ hide.timers = Append(timers, FrontTimer(card, e))
                      /\ show.elems[e].side = "front"
                      /\ show.elems[e].front = card
                      /\ Len(show.log) = 1
                      /\ show.log[1].ev = "setupFrontDiv"
                      /\ show.log[1].card = card
                      /\ show.log[1].elem = e
                      /\ show.timers = timers)
    /\ [][/\ op' = "timer"
             => \E i \in DOMAIN timers :
                   /\ timers[i].elapsed = timers[i].delay
                   /\ timers[i].hook = "setupFrontDiv" => timers[i].elapsed = 500
                   /\ Len(timers') = Len(timers) - 1
                   /\ Len(log') = 1
                   /\ log'[1].ev = timers[i].hook
                   /\ log'[1].card = timers[i].card
          /\ op' = "advanceTime"
             => /\ log' = <<>>
                /\ Len(timers') = Len(timers)
                /\ \E d \in 1..500 :
                      \A i \in DOMAIN timers :
                          /\ timers'[i].elapsed = timers[i].elapsed + d
                          /\ timers'[i].elapsed <= timers[i].delay]_vars

C6_Witness ==
    /\ op = "setCardVisible"
    /\ log = <<>>
    /\ \E i \in DOMAIN timers :
          /\ timers[i].hook = "setupFrontDiv"
          /\ timers[i].delay = 500
          /\ timers[i].elapsed = 0
          /\ elems[timers[i].elem].side = "back"
          /\ elems[timers[i].elem].front # timers[i].card

\* C7: setCardVisible(card, v, settings) with updateData absent or true, for
\* a card that stock S holds at index i, makes S.getCards()[i] the value that
\* was passed and leaves the length of S's sequence, its other positions and
\* the sequences of the other stocks as they were; with updateData false no
\* stock sequence changes.
C7_DataReplacedInPlace ==
    \A card \in Cards, visible \in OptBool, settings \in OptSettings :
        LET r == setCardVisible(Cur, card, visible, settings)
            S == getCardStock(Cur, card)
        IN IF Nullish(Field(settings, "updateData"), TRUE) /\ S # NoStock
           THEN LET i == findIndex(cards[S], card)
                IN /\ i # 0
                   /\ r.thrown = "none"
                   /\ r.cards[S][i] = card
                   /\ Len(r.cards[S]) = Len(cards[S])
                   /\ \A j \in DOMAIN cards[S] : j # i => r.cards[S][j] = cards[S][j]
                   /\ \A t \in StockIds : t # S => r.cards[t] = cards[t]
           ELSE r.cards = cards

C7_Witness ==
    /\ op = "setCardVisible"
    /\ thrown = "none"
    /\ \E s \in StockIds :
          /\ Len(cards[s]) = 2
          /\ \E i \in DOMAIN cards[s] :
                /\ getCardElement(Cur, cards[s][i]) # Null
                /\ elems[getCardElement(Cur, cards[s][i])].front # cards[s][i]

\* C8, as stated: setCardVisible, flipCard and updateCardInformations for a
\* card without an element in the document are silent no-ops: no error, no
\* hook, no timer, no change to a stock sequence.
C8_AsStated ==
    [][\A card \in Cards, visible \in OptBool, settings \in OptSettings :
          (/\ getCardElement(Cur, card) = Null
           /\ \/ SetCardVisible(card, visible, settings)
              \/ FlipCard(card, settings)
              \/ UpdateCardInformations(card, settings))
              => /\ thrown' = "none"
                 /\ log' = <<>>
                 /\ timers' = timers
                 /\ cards' = cards]_vars

\* C9, as stated: when the element a pending callback keeps has been removed
\* with removeCard before the callback runs, the callback calls no hook.
C9_AsStated ==
    [][(/\ op' = "timer"
        /\ \A i \in DOMAIN timers : ~elems[timers[i].elem].attached)
           => log' = <<>>]_vars

\* C11, as stated: from the moment addCard(card) has been called on stock S
\* and at every point while its animation promise is unsettled, S contains
\* the card.
C11_AsStated ==
    \A a \in anims : contains(Cur, a.stock, a.card)

\* C11: the sequence of the destination stock S is updated before the
\* animation of addCard starts: S holds the card when the animation primitive
\* is started and when addCard returns with its promise unsettled, and while
\* the promise stays unsettled S holds the card until a removeCard or an
\* addCard on another stock takes it away.
C11_MemberBeforeAnimation ==
    [][/\ \A i \in DOMAIN log' :
             log'[i].ev = "animation" => log'[i].held
       /\ \A a \in anims' \ anims :
             /\ op' = "addCard"
             /\ contains(Post, a.stock, a.card)
       /\ \A a \in anims \cap anims' :
             (contains(Cur, a.stock, a.card) /\ ~contains(Post, a.stock, a.card))
                => op' \in {"removeCard", "addCard"}]_vars

C11_Witness ==
    /\ op = "addCard"
    /\ \E a \in anims :
          /\ contains(Cur, a.stock, a.card)
          /\ \E i \in DOMAIN log :
                /\ log[i].ev = "animation"
                /\ log[i].stock = a.stock
                /\ log[i].card = a.card
                /\ log[i].held

\* C12: in every reachable state the selection of each stock is a subset
\* of the stock's cards and is empty whenever the selection mode is 'none';
\* so after setSelectionMode('none') getSelection() is empty, whatever was
\* selected before.
C12_SelectionWithinStock ==
    \A s \in StockIds :
        /\ \A i \in DOMAIN props[s].selectedCards :
              contains(Cur, s, props[s].selectedCards[i])
        /\ props[s].selectionMode = "none" => props[s].selectedCards = <<>>

C12_Witness ==
    /\ op = "setSelectionMode"
    /\ \E s \in StockIds :
          /\ props[s].selectionMode = "none"
          /\ props[s].selectedCards = <<>>
          /\ Len(cards[s]) = 2
          /\ Len(log) = 2
          /\ \A i \in DOMAIN log : log[i].ev = "unselectCard" /\ log[i].stock = s

Calls(ev, s) ==
    Cardinality({i \in DOMAIN log' : log'[i].ev = ev /\ log'[i].stock = s})

\* C14: for a Deck that updates its card number, each addCard adds exactly
\* 1 to the card number and each cardRemoved takes exactly 1 off, the one of
\* CardManager.removeCard for a card of the deck included, so the removal of a
\* card after its addCard gives the card number there was before.
C14_CountFollowsCards ==
    [][\A s \in StockIds :
          (props[s].kind = "deck" /\ props[s].autoUpdateCardNumber)
             => /\ props'[s].cardNumber =
                      props[s].cardNumber + Calls("Deck.addCard", s)
                                          - Calls("cardRemoved", s)
                /\ \A card \in Cards :
                      (/\ op' = "removeCard"
                       /\ contains(Cur, s, card)
                       /\ getCardElement(Post, card) = Null)
                         => props'[s].cardNumber = props[s].cardNumber - 1
                /\ \A card \in Cards :
                      (/\ op' = "addCard"
                       /\ ~contains(Cur, s, card)
                       /\ contains(Post, s, card))
                         => props'[s].cardNumber = props[s].cardNumber + 1]_vars

C14_Witness ==
    /\ op = "removeCard"
    /\ props[1].kind = "deck"
    /\ props[1].autoUpdateCardNumber
    /\ props[1].cardNumber = 10
    /\ cards[1] = <<>>
    /\ \E i \in DOMAIN log : log[i].ev = "cardRemoved" /\ log[i].stock = 1

\* C15: in a SlotStock, addCard with an explicit slot puts the card in the
\* container of that slot and in no other, and setSlotsIds(newIds) resets the
\* stock: afterwards it holds no card and has exactly one empty slot for each
\* id of newIds, whatever it held before.
C15_SlotsPlaceAndReset ==
    \A s \in StockIds :
        props[s].kind = "slot"
           => /\ \A card \in SelectCards, j \in DOMAIN props[s].slots :
                    LET r == slotAddCard(Cur, s, card, <<>>,
                                         <<props[s].slots[j].id>>)
                    IN (~r.full /\ props[s].slots[j].cards \subseteq {getId(card)})
                          => /\ r.thrown = "none"
                             /\ contains(r, s, card)
                             /\ \A k \in DOMAIN r.props[s].slots :
                                   getId(card) \in r.props[s].slots[k].cards
                                      <=> k = j
              /\ \A newIds \in SlotsIds :
                    LET r == setSlotsIds(Cur, s, newIds)
                    IN /\ r.cards[s] = <<>>
                       /\ \A card \in Cards : ~contains(r, s, card)
                       /\ Len(r.props[s].slots) = Len(newIds)
                       /\ \A k \in DOMAIN newIds :
                             /\ r.props[s].slots[k].id = newIds[k]
                             /\ r.props[s].slots[k].cards = {}

C15_Witness ==
    /\ op = "setSlotsIds"
    /\ props[1].kind = "slot"
    /\ cards[1] = <<>>
    /\ props[1].slots = emptySlots(<<4, 5>>)
    /\ Len(log) = 2
    /\ \A i \in DOMAIN log : log[i].ev = "cardRemoved" /\ log[i].stock = 1

OtherSide(side) == IF side = "front" THEN "back" ELSE "front"

\* C16: flipCard(card) on a card with a live element sets the rendered side
\* to the opposite of the side rendered now, whatever isCardVisible(card)
\* says, so a second flipCard brings the first side back.
C16_FlipToggles ==
    \A card \in Cards, settings \in OptSettings :
        LET e == getCardElement(Cur, card)
            once == flipCard(Cur, card, settings)
            twice == flipCard(once, card, settings)
        IN e # Null
              => /\ once.elems[e].side = OtherSide(elems[e].side)
                 /\ twice.elems[e].side = elems[e].side

C16_Witness ==
    /\ op = "flipCard"
    /\ log # <<>>
    /\ log[1].ev = "setupFrontDiv"
    /\ ~isCardVisible(log[1].card)
    /\ elems[log[1].elem].side = "front"

Holding(held, card) ==
    [Cur EXCEPT !.cards = [s \in StockIds |-> IF s \in held THEN <<card>> ELSE <<>>]]

\* C18: getCardStock(card) gives a stock registered with addStock that
\* contains the card, the one registered first when several contain it, and
\* no stock when no registered stock contains it; the list of registered
\* stocks only grows, at its end, and no operation takes a stock off it.
C18_FirstRegisteredHolder ==
    /\ [](\A card \in Cards, held \in SUBSET StockIds :
             /\ LET reg == {i \in DOMAIN stocks : stocks[i] \in held}
                    S == getCardStock(Holding(held, card), card)
                IN IF reg = {} THEN S = NoStock
                   ELSE S = stocks[CHOOSE i \in reg : \A j \in reg : i <= j]
             /\ LET reg == {i \in DOMAIN stocks : contains(Cur, stocks[i], card)}
                    S == getCardStock(Cur, card)
                IN IF reg = {} THEN S = NoStock
                   ELSE S = stocks[CHOOSE i \in reg : \A j \in reg : i <= j])
    /\ [][\/ stocks' = stocks
          \/ /\ op' = "addStock"
             /\ \E s \in StockIds : stocks' = Append(stocks, s)]_vars

C18_Witness ==
    /\ stocks = <<1, 2>>
    /\ \E card \in Cards :
          /\ getCardStock(Cur, card) = 2
          /\ ~contains(Cur, 1, card)
    /\ cards[1] # <<>>

\* the callback that runs in the step: the first one that is due
Fired == CHOOSE i \in DOMAIN timers :
            Due(timers[i]) /\ \A j \in 1..(i - 1) : ~Due(timers[j])

\* C19: a delayed front or back update touches only the element that had the
\* id of the card when setCardVisible was called: the callback leaves every
\* other element of the document as it is, the new element of the same id
\* that was created after a removeCard included.
C19_CallbackKeepsElement ==
    [][op' = "timer"
          => \A i \in CardIds :
                LET e == getElementById(Cur, DefaultIds[i])
                    f == getElementById(Post, DefaultIds[i])
                IN (e # Null /\ e # timers[Fired].elem)
                      => /\ f # Null
                         /\ elems'[f] = elems[e]]_vars

C19_Witness ==
    /\ op = "timer"
    /\ Len(log) = 1
    /\ ~log[1].attached
    /\ getCardElement(Cur, log[1].card) # Null
    /\ elems[getCardElement(Cur, log[1].card)].front # log[1].card

\* C20, as stated, for the call that ran last: when a setCardVisible or
\* flipCard call has just populated the front face of an element from the
\* value it was passed, and then the last pending timer fires, the front face
\* of the element still shows that value.
C20_AsStated ==
    [][(/\ op \in {"setCardVisible", "flipCard"}
        /\ log # <<>>
        /\ log[1].ev = "setupFrontDiv"
        /\ log[1].attached
        /\ op' = "timer"
        /\ timers' = <<>>)
          => LET f == getElementById(Post, log[1].id)
             IN f # Null => elems'[f].front = log[1].card]_vars

\* C21, as stated: setCardVisible with default settings for a card whose element
\* is live but which no registered stock contains (a free-floating element)
\* raises no error, shows the side asked for and changes no stock sequence.
C21_AsStated ==
    [][\A card \in Cards, visible \in OptBool :
          (/\ getCardElement(Cur, card) # Null
           /\ getCardStock(Cur, card) = NoStock
           /\ SetCardVisible(card, visible, <<>>))
              => /\ thrown' = "none"
                 /\ cards' = cards
                 /\ LET e == getCardElement(Post, card)
                    IN /\ e # Null
                       /\ elems'[e].side =
                              IF Nullish(visible, isCardVisible(card))
                              THEN "front" ELSE "back"]_vars

TypeOK ==
    /\ DOMAIN elems = Slots
    /\ Len(timers) <= MaxTimers

====
